---- MODULE Spec2Model ----
(***************************************************************************)
(* Model of the genomic relationship / mixed-model numeric engine of       *)
(* bijmantra: the relationship-matrix builders calculate_g_matrix          *)
(* (genomics_kernel/src/gblup.rs) and calculate_grm (rust/src/matrix.rs),  *)
(* the safe wrappers around the native kernels (rust/src/fortran_ffi.rs),  *)
(* the in-process solver estimate_gblup (rust/src/statistics.rs) and the   *)
(* power-iteration eigensolver calculate_eigenvalues (rust/src/matrix.rs). *)
(*                                                                         *)
(* Every operation of the engine is a function of its arguments, so the    *)
(* state is one invocation: the operation called, its arguments, the       *)
(* value it returned, the locals it held when it returned and the native   *)
(* calls it made.  A caller invokes an operation from "idle" and takes     *)
(* the result back with Return.  The row-parallel build of                 *)
(* calculate_g_matrix is also modelled step by step, one store of a row    *)
(* worker at a time (SpecParallel).                                        *)
(*                                                                         *)
(* Floating-point values are modelled as exact rationals [num, den] in     *)
(* lowest terms (den = 0 stands for the IEEE results of a division by      *)
(* zero); usize is modelled as USIZE_BITS wide.                            *)
(***************************************************************************)
EXTENDS Integers, Sequences, FiniteSets, TLC

VARIABLES
    pc,      \* "idle": no invocation in progress; "done": an operation returned
    op,      \* name of the operation invoked
    args,    \* its arguments
    ret,     \* the value it returned
    locals,  \* the function's locals when it returned
    native   \* the native kernel calls made during the invocation

vars == <<pc, op, args, ret, locals, native>>

----------------------------------------------------------------------------
(* Bounds of the model *)

\* Width of usize in bits (64 or 32 on the real targets).
USIZE_BITS == 4
\* Largest declared dimension a caller passes.
MaxDim == 4
\* Largest genotype buffer a caller passes.
MaxLen == 4

\* Width of c_int in bits (32 on the real targets), narrower than usize.
C_INT_BITS == 3

USIZE_MAX == 2^USIZE_BITS - 1

\* Largest numerator or denominator of a value the power iteration holds.
MaxMagnitude == 32

----------------------------------------------------------------------------
(* Exact arithmetic standing for f32 / f64 *)

Abs(x) == IF x < 0 THEN -x ELSE x

RECURSIVE Gcd(_, _)
Gcd(a, b) == IF b = 0 THEN a ELSE Gcd(b, a % b)

\* n/d in lowest terms with a positive denominator (d # 0)
Rat(n, d) ==
    LET s == IF d < 0 THEN -1 ELSE 1
        g == Gcd(Abs(n), Abs(d))
    IN  [num |-> (s * n) \div g, den |-> (s * d) \div g]

\* `value as f32`
AsFloat(k) == [num |-> k, den |-> 1]

FAdd(a, b) == Rat(a.num * b.den + b.num * a.den, a.den * b.den)
FSub(a, b) == Rat(a.num * b.den - b.num * a.den, a.den * b.den)
FMul(a, b) == Rat(a.num * b.num, a.den * b.den)
\* x / 0.0 is an infinity or NaN: kept as sign/0
FDiv(a, b) ==
    IF b.num = 0
    THEN [num |-> IF a.num > 0 THEN 1 ELSE IF a.num < 0 THEN -1 ELSE 0, den |-> 0]
    ELSE Rat(a.num * b.den, a.den * b.num)
FLt(a, b) == a.num * b.den < b.num * a.den
FAbs(a) == [num |-> Abs(a.num), den |-> a.den]

\* IEEE special values: NaN is 0/0, the infinities are 1/0 and -1/0
NaN == [num |-> 0, den |-> 0]

is_nan(a) == a.den = 0 /\ a.num = 0
is_infinite(a) == a.den = 0 /\ a.num # 0

\* f64 operations with the IEEE rules for NaN and the infinities (the sign
\* of a zero is not tracked)
f64_neg(a) == [num |-> -a.num, den |-> a.den]
f64_add(a, b) ==
    IF is_nan(a) \/ is_nan(b) THEN NaN
    ELSE IF is_infinite(a) THEN (IF is_infinite(b) /\ b.num # a.num THEN NaN ELSE a)
    ELSE IF is_infinite(b) THEN b
    ELSE FAdd(a, b)
f64_sub(a, b) == f64_add(a, f64_neg(b))
f64_mul(a, b) ==
    IF is_nan(a) \/ is_nan(b) THEN NaN
    ELSE IF is_infinite(a) \/ is_infinite(b)
    THEN (IF a.num = 0 \/ b.num = 0 THEN NaN
          ELSE [num |-> IF (a.num > 0) = (b.num > 0) THEN 1 ELSE -1, den |-> 0])
    ELSE FMul(a, b)
f64_div(a, b) ==
    IF is_nan(a) \/ is_nan(b) THEN NaN
    ELSE IF is_infinite(a)
    THEN (IF is_infinite(b) THEN NaN
          ELSE [num |-> IF b.num < 0 THEN -a.num ELSE a.num, den |-> 0])
    ELSE IF is_infinite(b) THEN AsFloat(0)
    ELSE FDiv(a, b)
\* a < b; false when either is a NaN
f64_lt(a, b) ==
    IF is_infinite(a) /\ is_infinite(b) THEN a.num < b.num ELSE FLt(a, b)
\* f64::max and f64::min return the other operand when one is a NaN
f64_max(a, b) == IF is_nan(a) THEN b ELSE IF is_nan(b) THEN a ELSE IF f64_lt(a, b) THEN b ELSE a
f64_min(a, b) == IF is_nan(a) THEN b ELSE IF is_nan(b) THEN a ELSE IF f64_lt(b, a) THEN b ELSE a

\* cell (i, k) of the row-major n x n matrix g
Cell(g, n, i, k) == g[i * n + k + 1]

Symmetric(g, n) ==
    \A i \in 0..(n - 1), k \in 0..(n - 1) : Cell(g, n, i, k) = Cell(g, n, k, i)

\* the sequence F(1), ..., F(len), built cell by cell
Tabulate(len, F(_)) ==
    LET acc[x \in 0..len] == IF x = 0 THEN << >> ELSE Append(acc[x - 1], F(x))
    IN  acc[len]

\* vec![0.0; len]
ZeroVec(len) == [i \in 1..len |-> AsFloat(0)]

----------------------------------------------------------------------------
(* genomics_kernel/src/gblup.rs *)

MAX_GENOTYPE == 2
PLOIDY == 2

\* usize::checked_mul
checked_mul(a, b) ==
    IF a * b > USIZE_MAX
    THEN [is_some |-> FALSE, val |-> 0]
    ELSE [is_some |-> TRUE, val |-> a * b]

\* faulty variant: the genotype test off by one, `value <= MAX_GENOTYPE + 1`
g_matrix_is_valid_off_by_one(value) == value <= MAX_GENOTYPE + 1

\* the genotype test `value <= MAX_GENOTYPE` on a u8
g_matrix_is_valid(value) == value <= MAX_GENOTYPE

\* the inner loop over ind_idx for one marker: (sum, count) when it ends
g_matrix_marker_stats(markers, n_markers, n_individuals, marker_idx) ==
    LET acc[k \in 0..n_individuals] ==
            IF k = 0 THEN [sum |-> AsFloat(0), count |-> 0]
            ELSE LET value == markers[(k - 1) * n_markers + marker_idx + 1]
                     prev == acc[k - 1]
                 IN  IF g_matrix_is_valid(value)
                     THEN [sum |-> FAdd(prev.sum, AsFloat(value)),
                           count |-> prev.count + 1]
                     ELSE prev
    IN  acc[n_individuals]

\* counts[marker_idx]
g_matrix_counts(markers, n_markers, n_individuals) ==
    [j \in 1..n_markers |->
        g_matrix_marker_stats(markers, n_markers, n_individuals, j - 1).count]

\* faulty variant: the frequency as the mean call, sum / count
g_matrix_freqs_mean(markers, n_markers, n_individuals) ==
    [j \in 1..n_markers |->
        LET st == g_matrix_marker_stats(markers, n_markers, n_individuals, j - 1)
        IN  IF st.count > 0 THEN FDiv(st.sum, AsFloat(st.count)) ELSE AsFloat(0)]

\* freqs[marker_idx] = sum / (PLOIDY * count), left 0.0 when count = 0
g_matrix_freqs(markers, n_markers, n_individuals) ==
    [j \in 1..n_markers |->
        LET st == g_matrix_marker_stats(markers, n_markers, n_individuals, j - 1)
        IN  IF st.count > 0
            THEN FDiv(st.sum, FMul(AsFloat(PLOIDY), AsFloat(st.count)))
            ELSE AsFloat(0)]

\* whether a marker adds to the scale
g_matrix_in_scale(count, p) ==
    count > 0 /\ FLt(AsFloat(0), p) /\ FLt(p, AsFloat(1))

\* faulty variant: the scale without the PLOIDY factor, sum of p * (1 - p)
g_matrix_scale_no_ploidy(freqs, counts, n_markers) ==
    LET acc[k \in 0..n_markers] ==
            IF k = 0 THEN AsFloat(0)
            ELSE LET p == freqs[k]
                 IN  IF g_matrix_in_scale(counts[k], p)
                     THEN FAdd(acc[k - 1], FMul(p, FSub(AsFloat(1), p)))
                     ELSE acc[k - 1]
    IN  acc[n_markers]

\* scale = sum of PLOIDY * p * (1 - p) over the markers that qualify
g_matrix_scale(freqs, counts, n_markers) ==
    LET acc[k \in 0..n_markers] ==
            IF k = 0 THEN AsFloat(0)
            ELSE LET p == freqs[k]
                 IN  IF g_matrix_in_scale(counts[k], p)
                     THEN FAdd(acc[k - 1],
                               FMul(FMul(AsFloat(PLOIDY), p), FSub(AsFloat(1), p)))
                     ELSE acc[k - 1]
    IN  acc[n_markers]

\* faulty variant: centring on the frequency, geno - freqs[marker_idx]
g_matrix_z_no_ploidy(markers, freqs, n_markers, n_individuals) ==
    [idx1 \in 1..(n_markers * n_individuals) |->
        LET marker_idx == (idx1 - 1) % n_markers
            geno == markers[idx1]
        IN  IF g_matrix_is_valid(geno)
            THEN FSub(AsFloat(geno), freqs[marker_idx + 1])
            ELSE AsFloat(0)]

\* z[idx] = geno - PLOIDY * freqs[marker_idx] for a valid call, else 0.0
g_matrix_z(markers, freqs, n_markers, n_individuals) ==
    [idx1 \in 1..(n_markers * n_individuals) |->
        LET marker_idx == (idx1 - 1) % n_markers
            geno == markers[idx1]
        IN  IF g_matrix_is_valid(geno)
            THEN FSub(AsFloat(geno), FMul(AsFloat(PLOIDY), freqs[marker_idx + 1]))
            ELSE AsFloat(0)]

\* faulty variant: col_offset taken from the row, i * n_markers
g_matrix_dot_row_twice(z, n_markers, i, j) ==
    LET acc[k \in 0..n_markers] ==
            IF k = 0 THEN AsFloat(0)
            ELSE FAdd(acc[k - 1],
                      FMul(z[i * n_markers + (k - 1) + 1], z[i * n_markers + (k - 1) + 1]))
    IN  acc[n_markers]

\* the dot product of rows i and j of z, accumulated over k = 0..n_markers-1
g_matrix_dot(z, n_markers, i, j) ==
    LET acc[k \in 0..n_markers] ==
            IF k = 0 THEN AsFloat(0)
            ELSE FAdd(acc[k - 1],
                      FMul(z[i * n_markers + (k - 1) + 1], z[j * n_markers + (k - 1) + 1]))
    IN  acc[n_markers]

\* row[j] of chunk i: what the closure of for_each writes
g_matrix_cell(z, scale, n_markers, i, j) ==
    FDiv(g_matrix_dot(z, n_markers, i, j), scale)

\* the locals of calculate_g_matrix when it returns
g_matrix_locals(markers, n_markers, n_individuals) ==
    LET expected_len == checked_mul(n_markers, n_individuals)
        g_len == checked_mul(n_individuals, n_individuals)
    IN  IF n_markers = 0 \/ n_individuals = 0 THEN [stage |-> "rejected"]
        ELSE IF ~expected_len.is_some THEN [stage |-> "rejected"]
        ELSE IF Len(markers) # expected_len.val THEN [stage |-> "rejected"]
        ELSE IF ~g_len.is_some THEN [stage |-> "rejected"]
        ELSE LET freqs == g_matrix_freqs(markers, n_markers, n_individuals)
                 counts == g_matrix_counts(markers, n_markers, n_individuals)
                 scale == g_matrix_scale(freqs, counts, n_markers)
             IN  IF scale = AsFloat(0)
                 THEN [stage |-> "zero_scale", freqs |-> freqs, counts |-> counts,
                       scale |-> scale, g_len |-> g_len.val]
                 ELSE [stage |-> "built", freqs |-> freqs, counts |-> counts,
                       scale |-> scale, g_len |-> g_len.val,
                       z |-> g_matrix_z(markers, freqs, n_markers, n_individuals)]

\* faulty variant: the zero-scale fallback returns Vec::new()
calculate_g_matrix_empty_on_zero_scale(markers, n_markers, n_individuals) ==
    LET l == g_matrix_locals(markers, n_markers, n_individuals)
    IN  IF l.stage = "rejected" \/ l.stage = "zero_scale" THEN << >>
        ELSE [c \in 1..l.g_len |->
                g_matrix_cell(l.z, l.scale, n_markers,
                              (c - 1) \div n_individuals, (c - 1) % n_individuals)]

\* pub fn calculate_g_matrix(markers, n_markers, n_individuals) -> Vec<f32>
calculate_g_matrix(markers, n_markers, n_individuals) ==
    LET l == g_matrix_locals(markers, n_markers, n_individuals)
    IN  IF l.stage = "rejected" THEN << >>
        ELSE IF l.stage = "zero_scale" THEN ZeroVec(l.g_len)
        ELSE [c \in 1..l.g_len |->
                g_matrix_cell(l.z, l.scale, n_markers,
                              (c - 1) \div n_individuals, (c - 1) % n_individuals)]

\* faulty variant: chunk i taken for column i of g
chunk_cell_transposed(i, j, n_individuals) == j * n_individuals + i + 1

\* the cell of g that row[j] of chunk i is, for the chunks
\* g.par_chunks_mut(n_individuals).enumerate() hands out
chunk_cell(i, j, n_individuals) == i * n_individuals + j + 1

\* faulty variant: the closure adds the cell above its own, which belongs to
\* another chunk
row_value_reads_above(g, z, scale, n_markers, n_individuals, i, j) ==
    IF i = 0 THEN g_matrix_cell(z, scale, n_markers, i, j)
    ELSE FAdd(g[chunk_cell(i - 1, j, n_individuals)],
              g_matrix_cell(z, scale, n_markers, i, j))

\* the value the closure stores in row[j]: it reads z and scale only
row_value(g, z, scale, n_markers, n_individuals, i, j) ==
    g_matrix_cell(z, scale, n_markers, i, j)

\* `row[j] = sum / scale;` in the closure run on chunk i
row_write(g, z, scale, n_markers, n_individuals, i, j) ==
    [g EXCEPT ![chunk_cell(i, j, n_individuals)] =
        row_value(g, z, scale, n_markers, n_individuals, i, j)]

\* the wasm32 path: the chunks in order, each for j in 0..n_individuals
g_matrix_sequential(z, scale, n_markers, n_individuals) ==
    LET s[x \in 0..(n_individuals * n_individuals)] ==
            IF x = 0 THEN ZeroVec(n_individuals * n_individuals)
            ELSE row_write(s[x - 1], z, scale, n_markers, n_individuals,
                           (x - 1) \div n_individuals, (x - 1) % n_individuals)
    IN  s[n_individuals * n_individuals]

----------------------------------------------------------------------------
(* rust/src/matrix.rs *)

\* the genotype test `geno >= 0` on an i32
grm_is_valid(geno) == geno >= 0

\* Indexing genotypes[i * n_markers + j] panics when the index is out of
\* range: some index of the loops is, exactly when the buffer is shorter
\* than n_samples * n_markers.
grm_index_panics(genotypes, n_samples, n_markers) ==
    \E i \in 0..(n_samples - 1), j \in 0..(n_markers - 1) :
        i * n_markers + j >= Len(genotypes)

\* vec![0.0; n_samples * n_samples]: the multiplication overflows usize; a
\* build with overflow checks panics there, one without allocates the
\* wrapped length and panics on the first index past it.
grm_alloc_panics(n_samples) == n_samples * n_samples > USIZE_MAX

\* the inner loop over i for marker j: (sum, count) when it ends
grm_marker_stats(genotypes, n_samples, n_markers, j) ==
    LET acc[k \in 0..n_samples] ==
            IF k = 0 THEN [sum |-> AsFloat(0), count |-> 0]
            ELSE LET geno == genotypes[(k - 1) * n_markers + j + 1]
                     prev == acc[k - 1]
                 IN  IF grm_is_valid(geno)
                     THEN [sum |-> FAdd(prev.sum, AsFloat(geno)),
                           count |-> prev.count + 1]
                     ELSE prev
    IN  acc[n_samples]

\* counts[j]
grm_counts(genotypes, n_samples, n_markers) ==
    [j1 \in 1..n_markers |->
        grm_marker_stats(genotypes, n_samples, n_markers, j1 - 1).count]

\* faulty variant: the frequency without the factor 2.0, sum / count
grm_freqs_mean(genotypes, n_samples, n_markers) ==
    [j1 \in 1..n_markers |->
        LET st == grm_marker_stats(genotypes, n_samples, n_markers, j1 - 1)
        IN  IF st.count > 0 THEN FDiv(st.sum, AsFloat(st.count)) ELSE AsFloat(0)]

\* freqs[j] = sum / (2.0 * count), left 0.0 when count = 0
grm_freqs(genotypes, n_samples, n_markers) ==
    [j1 \in 1..n_markers |->
        LET st == grm_marker_stats(genotypes, n_samples, n_markers, j1 - 1)
        IN  IF st.count > 0
            THEN FDiv(st.sum, FMul(AsFloat(2), AsFloat(st.count)))
            ELSE AsFloat(0)]

\* whether a marker adds to the scale and to markers_used
grm_in_scale(p) == FLt(AsFloat(0), p) /\ FLt(p, AsFloat(1))

\* the scaling loop: scale (before the zero fallback) and markers_used
grm_scale_loop(freqs, n_markers) ==
    LET acc[k \in 0..n_markers] ==
            IF k = 0 THEN [scale |-> AsFloat(0), markers_used |-> 0]
            ELSE LET p == freqs[k]
                     prev == acc[k - 1]
                 IN  IF grm_in_scale(p)
                     THEN [scale |-> FAdd(prev.scale,
                                          FMul(FMul(AsFloat(2), p), FSub(AsFloat(1), p))),
                           markers_used |-> prev.markers_used + 1]
                     ELSE prev
    IN  acc[n_markers]

\* if scale == 0.0 { scale = 1.0 }
grm_scale(raw_scale) == IF raw_scale = AsFloat(0) THEN AsFloat(1) ELSE raw_scale

\* z[idx] = geno - 2.0 * freqs[j] for a valid call, else 0.0
grm_z(genotypes, freqs, n_samples, n_markers) ==
    [idx1 \in 1..(n_samples * n_markers) |->
        LET j == (idx1 - 1) % n_markers
            geno == genotypes[idx1]
        IN  IF grm_is_valid(geno)
            THEN FSub(AsFloat(geno), FMul(AsFloat(2), freqs[j + 1]))
            ELSE AsFloat(0)]

\* g_ij = sum / scale for the pair (i, j), i <= j
grm_g_ij(z, scale, n_markers, i, j) ==
    LET acc[k \in 0..n_markers] ==
            IF k = 0 THEN AsFloat(0)
            ELSE FAdd(acc[k - 1],
                      FMul(z[i * n_markers + (k - 1) + 1], z[j * n_markers + (k - 1) + 1]))
    IN  FDiv(acc[n_markers], scale)

\* the upper-triangle loop: cell (r, c) is written from the pair
\* (min, max), once as grm[i * n + j] and once as grm[j * n + i]
grm_matrix(z, scale, n_samples, n_markers) ==
    [c1 \in 1..(n_samples * n_samples) |->
        LET r == (c1 - 1) \div n_samples
            c == (c1 - 1) % n_samples
            i == IF r <= c THEN r ELSE c
            j == IF r <= c THEN c ELSE r
        IN  grm_g_ij(z, scale, n_markers, i, j)]

\* sum of a sequence of floats
RECURSIVE FSum(_)
FSum(s) == IF s = << >> THEN AsFloat(0) ELSE FAdd(Head(s), FSum(Tail(s)))

\* the cells of the strict upper triangle, in the order the loop visits them
grm_off_diag(grm, n_samples) ==
    LET Cells == {c1 \in 1..(n_samples * n_samples) :
                     (c1 - 1) \div n_samples < (c1 - 1) % n_samples}
        pick[S \in SUBSET Cells] ==
            IF S = {} THEN << >>
            ELSE LET m == CHOOSE x \in S : \A y \in S : x <= y
                 IN  <<grm[m]>> \o pick[S \ {m}]
    IN  pick[Cells]

\* the locals of calculate_grm when it returns (or panics)
grm_locals(genotypes, n_samples, n_markers) ==
    IF grm_index_panics(genotypes, n_samples, n_markers)
    THEN [stage |-> "panic_index"]
    ELSE LET freqs == grm_freqs(genotypes, n_samples, n_markers)
             counts == grm_counts(genotypes, n_samples, n_markers)
             sl == grm_scale_loop(freqs, n_markers)
             scale == grm_scale(sl.scale)
             z == grm_z(genotypes, freqs, n_samples, n_markers)
         IN  [stage |-> IF grm_alloc_panics(n_samples) THEN "panic_alloc" ELSE "built",
              freqs |-> freqs, counts |-> counts, raw_scale |-> sl.scale,
              scale |-> scale, markers_used |-> sl.markers_used, z |-> z]

\* pub fn calculate_grm(genotypes, n_samples, n_markers) -> JsValue
calculate_grm(genotypes, n_samples, n_markers) ==
    LET l == grm_locals(genotypes, n_samples, n_markers)
    IN  IF l.stage # "built" THEN [kind |-> "panic"]
        ELSE LET grm == grm_matrix(l.z, l.scale, n_samples, n_markers)
                 diag == [i1 \in 1..n_samples |-> grm[(i1 - 1) * n_samples + i1]]
                 off == grm_off_diag(grm, n_samples)
             IN  [kind |-> "GRMResult",
                  matrix |-> grm,
                  n_samples |-> n_samples,
                  n_markers_used |-> l.markers_used,
                  mean_diagonal |-> FDiv(FSum(diag), AsFloat(n_samples)),
                  mean_off_diagonal |->
                      IF Len(off) > 0 THEN FDiv(FSum(off), AsFloat(Len(off)))
                      ELSE AsFloat(0)]

----------------------------------------------------------------------------
(* rust/src/matrix.rs: calculate_eigenvalues *)
(* The unit vector v is held as any vector w with v = w/|w|: the Rayleigh  *)
(* quotient and the deflation depend on the direction alone, and need no   *)
(* square root.  A v that is NaN in every component is held as NaN cells.  *)

\* the number of power iterations per eigenvalue, `for _ in 0..100`
POWER_ITERATIONS == 100

\* sum of a[i] * b[i]
vec_dot(a, b) ==
    LET acc[x \in 0..Len(a)] ==
            IF x = 0 THEN AsFloat(0) ELSE FAdd(acc[x - 1], FMul(a[x], b[x]))
    IN  acc[Len(a)]

\* av[i] = sum over j of deflated[i * n + j] * v[j]
mat_vec(deflated, v, n) ==
    LET row(i) ==
            LET acc[j \in 0..n] ==
                    IF j = 0 THEN AsFloat(0)
                    ELSE FAdd(acc[j - 1], FMul(deflated[(i - 1) * n + j], v[j]))
            IN  acc[n]
    IN  Tabulate(n, row)

is_zero_vec(v) == \A x \in 1..Len(v) : v[x].num = 0

\* the vector of coprime integers with the direction of the non-zero v
same_direction(v) ==
    LET den[x \in 0..Len(v)] ==
            IF x = 0 THEN 1 ELSE (den[x - 1] * v[x].den) \div Gcd(den[x - 1], v[x].den)
        lcm == den[Len(v)]
        scaled == Tabulate(Len(v), LAMBDA x : v[x].num * (lcm \div v[x].den))
        div[x \in 0..Len(v)] ==
            IF x = 0 THEN 0 ELSE Gcd(div[x - 1], Abs(scaled[x]))
        gcd == div[Len(v)]
    IN  Tabulate(Len(v), LAMBDA x : AsFloat(scaled[x] \div gcd))

representable(c) == Abs(c.num) <= MaxMagnitude /\ c.den <= MaxMagnitude

\* the end of one power iteration, given av = deflated * v: `norm < 1e-10`
\* holds exactly when av is zero (a non-zero av of representable values has
\* a norm above 1e-10), and the break leaves v as it was; d.ok is lost when
\* the exact direction is no longer representable
power_iteration_normalise(d, av, n) ==
    IF is_zero_vec(av) THEN d
    ELSE LET w == same_direction(av)
         IN  IF \A x \in 1..n : representable(w[x])
             THEN [ok |-> TRUE, w |-> w]
             ELSE [ok |-> FALSE, w |-> d.w]

\* one power iteration on the direction d.w
power_iteration(deflated, d, n) ==
    IF ~d.ok THEN d
    ELSE power_iteration_normalise(d, mat_vec(deflated, d.w, n), n)

RECURSIVE power_iterations(_, _, _, _)

\* the iterations from d whose first one gave `once`: a direction that an
\* iteration leaves unchanged, or that two iterations bring back, is not
\* iterated further (the remaining iterations repeat it); otherwise the
\* iterations are composed by halves
power_iterations_from(deflated, d, once, n, iterations) ==
    IF once = d \/ iterations = 1 THEN once
    ELSE IF power_iteration(deflated, once, n) = d
    THEN (IF iterations % 2 = 0 THEN d ELSE once)
    ELSE power_iterations(deflated,
                          power_iterations(deflated, d, n, iterations \div 2),
                          n, iterations - (iterations \div 2))

\* `for _ in 0..iterations`, stopped when the direction is not representable
power_iterations(deflated, d, n, iterations) ==
    IF iterations = 0 \/ ~d.ok THEN d
    ELSE power_iterations_from(deflated, d, power_iteration(deflated, d, n),
                               n, iterations)

\* eigenvalue = v' * A * v for v = w/|w|
rayleigh(deflated, w, n) == FDiv(vec_dot(w, mat_vec(deflated, w, n)), vec_dot(w, w))

\* deflated[i * n + j] -= eigenvalue * v[i] * v[j]
deflate(deflated, eigenvalue, w, n) ==
    LET ww == vec_dot(w, w)
    IN  Tabulate(n * n, LAMBDA x :
            FSub(deflated[x],
                 FDiv(FMul(eigenvalue, FMul(w[((x - 1) \div n) + 1], w[((x - 1) % n) + 1])),
                      ww)))

\* the state after a pass that left `deflated` and pushed `eigenvalue`
eigen_pushed(st, deflated, eigenvalue, n) ==
    [deflated |-> deflated,
     eigenvalues |-> Append(st.eigenvalues, FAbs(eigenvalue)),
     exact |-> \A x \in 1..(n * n) : representable(deflated[x])]

\* the eigenvalue of the direction w is pushed and deflated away
eigen_deflate(st, eigenvalue, w, n) ==
    eigen_pushed(st, deflate(st.deflated, eigenvalue, w, n), eigenvalue, n)

\* the end of a pass whose power iteration gave the direction d
eigen_converged(st, d, n) ==
    IF ~d.ok THEN [st EXCEPT !.exact = FALSE]
    ELSE eigen_deflate(st, rayleigh(st.deflated, d.w, n), d.w, n)

\* one pass of `for _ in 0..k.min(n)` with the random vector `draw`: the
\* state holds the deflated matrix and the eigenvalues pushed so far.  A
\* draw of all zeros has norm 0 and makes v NaN, hence the eigenvalue and
\* every cell of deflated, in this pass and in all later ones.
eigen_round(st, draw, n) ==
    IF ~st.exact THEN st
    ELSE IF is_nan(st.deflated[1]) \/ is_zero_vec(draw)
    THEN [deflated |-> Tabulate(n * n, LAMBDA x : NaN),
          eigenvalues |-> Append(st.eigenvalues, NaN), exact |-> TRUE]
    ELSE eigen_converged(st,
                         power_iterations(st.deflated,
                                          [ok |-> TRUE, w |-> same_direction(draw)],
                                          n, POWER_ITERATIONS),
                         n)

\* the loop `for _ in 0..k.min(n)` over the random vectors drawn
eigen_rounds(matrix, n, draws) ==
    LET st[r \in 0..Len(draws)] ==
            IF r = 0 THEN [deflated |-> matrix, eigenvalues |-> << >>, exact |-> TRUE]
            ELSE eigen_round(st[r - 1], draws[r], n)
    IN  st[Len(draws)]

\* k.min(n)
eigen_count(n, k) == IF k < n THEN k ELSE n

\* deflated[i * n + j] is read past the end of the matrix
eigen_panics(matrix, n, k) == eigen_count(n, k) > 0 /\ Len(matrix) < n * n

\* explained[i] = e / total * 100.0 for total the sum of the eigenvalues
eigen_explained(eigenvalues) ==
    LET total[x \in 0..Len(eigenvalues)] ==
            IF x = 0 THEN AsFloat(0) ELSE f64_add(total[x - 1], eigenvalues[x])
        sum == total[Len(eigenvalues)]
    IN  Tabulate(Len(eigenvalues),
                 LAMBDA x : f64_mul(f64_div(eigenvalues[x], sum), AsFloat(100)))

\* the running sums of explained
eigen_cumulative(explained) ==
    LET cum[x \in 0..Len(explained)] ==
            IF x = 0 THEN AsFloat(0) ELSE f64_add(cum[x - 1], explained[x])
    IN  Tabulate(Len(explained), LAMBDA x : cum[x])

\* the EigenResult built from the eigenvalues pushed
eigen_result(eigenvalues) ==
    LET explained == eigen_explained(eigenvalues)
    IN  [kind |-> "EigenResult", eigenvalues |-> eigenvalues,
         explained_variance |-> explained,
         cumulative_variance |-> eigen_cumulative(explained)]

\* pub fn calculate_eigenvalues(matrix, n, k), with the vectors the
\* thread-local generator hands out during the call
calculate_eigenvalues(matrix, n, k, draws) ==
    IF eigen_panics(matrix, n, k) THEN [kind |-> "panic"]
    ELSE eigen_result(eigen_rounds(matrix, n, draws).eigenvalues)

----------------------------------------------------------------------------
(* rust/src/fortran_ffi.rs *)
(* A slice is modelled by its length (the wrappers read only len() and     *)
(* as_ptr()), an output Vec by the length it was allocated with.           *)

\* a usize product `a * b` as the build computes it: a build with overflow
\* checks panics when it overflows, one without wraps
usize_mul(a, b, overflow_checks) ==
    IF a * b <= USIZE_MAX THEN [panic |-> FALSE, val |-> a * b]
    ELSE IF overflow_checks THEN [panic |-> TRUE, val |-> 0]
    ELSE [panic |-> FALSE, val |-> (a * b) % (USIZE_MAX + 1)]

C_INT_MIN == -(2^(C_INT_BITS - 1))
C_INT_MAX == 2^(C_INT_BITS - 1) - 1
CInt == C_INT_MIN..C_INT_MAX

\* `x as c_int` on a usize: the low bits, reinterpreted as signed
as_c_int(x) ==
    LET m == x % 2^C_INT_BITS
    IN  IF m > C_INT_MAX THEN m - 2^C_INT_BITS ELSE m

\* enum ComputeError
MatrixInversionFailed == [tag |-> "MatrixInversionFailed"]
SolveFailure == [tag |-> "SolveFailure"]
ConvergenceFailure(iterations) == [tag |-> "ConvergenceFailure", iterations |-> iterations]
InvalidDimensions == [tag |-> "InvalidDimensions"]
AllocationError == [tag |-> "AllocationError"]
Unknown(code) == [tag |-> "Unknown", code |-> code]

\* ComputeResult<T>, and the unwinding of a panic
Ok(v) == [kind |-> "Ok", value |-> v]
Err(e) == [kind |-> "Err", error |-> e]
Panicked == [kind |-> "panic"]

\* `buf.len() != n`
len_check(len, n) == IF len # n THEN "mismatch" ELSE "ok"

\* `buf.len() != a * b`
len_check_mul(len, a, b, overflow_checks) ==
    LET m == usize_mul(a, b, overflow_checks)
    IN  IF m.panic THEN "panic" ELSE len_check(len, m.val)

\* the validation block: the checks run in order and the first that does
\* not pass decides
RECURSIVE validate(_)
validate(checks) ==
    IF checks = << >> THEN "ok"
    ELSE IF Head(checks) # "ok" THEN Head(checks)
    ELSE validate(Tail(checks))

\* what a wrapper does when its validation block did not pass
rejected(v) ==
    [ret |-> IF v = "panic" THEN Panicked ELSE Err(InvalidDimensions),
     native |-> << >>]

\* the match on the status of compute_blup
blup_status(status, beta, u) ==
    IF status = 0 THEN Ok([beta |-> beta, breeding_values |-> u])
    ELSE IF status = -1 THEN Err(MatrixInversionFailed)
    ELSE Err(Unknown(status))

\* pub fn blup(phenotypes, fixed_effects, random_effects, a_inverse,
\*             var_additive, var_residual, n, p, q)
blup(a, status) ==
    LET v == validate(<<len_check(a.phenotypes, a.n),
                        len_check_mul(a.fixed_effects, a.n, a.p, a.overflow_checks),
                        len_check_mul(a.random_effects, a.n, a.q, a.overflow_checks),
                        len_check_mul(a.a_inverse, a.q, a.q, a.overflow_checks)>>)
        beta == [len |-> a.p]
        u == [len |-> a.q]
    IN  IF v # "ok" THEN rejected(v)
        ELSE [ret |-> blup_status(status, beta, u),
              native |-> <<[fn |-> "compute_blup", status |-> status,
                            dims |-> <<as_c_int(a.n), as_c_int(a.p), as_c_int(a.q)>>,
                            out |-> <<beta, u>>]>>]

\* `heritability <= 0.0 || heritability >= 1.0` (false for a NaN)
gblup_h2_rejected(h2) ==
    /\ ~(h2.num = 0 /\ h2.den = 0)
    /\ (~FLt(AsFloat(0), h2) \/ ~FLt(h2, AsFloat(1)))

\* faulty variant: a positive status taken for success, `status >= 0`
gblup_status_nonneg_ok(status, gebv) ==
    IF status >= 0 THEN Ok(gebv)
    ELSE IF status = -1 THEN Err(MatrixInversionFailed)
    ELSE IF status = -2 THEN Err(SolveFailure)
    ELSE Err(Unknown(status))

\* the match on the status of compute_gblup
gblup_status(status, gebv) ==
    IF status = 0 THEN Ok(gebv)
    ELSE IF status = -1 THEN Err(MatrixInversionFailed)
    ELSE IF status = -2 THEN Err(SolveFailure)
    ELSE Err(Unknown(status))

\* pub fn gblup(genotypes, phenotypes, heritability, n, m)
gblup(a, status) ==
    LET v == validate(<<len_check_mul(a.genotypes, a.n, a.m, a.overflow_checks),
                        len_check(a.phenotypes, a.n),
                        IF gblup_h2_rejected(a.heritability) THEN "mismatch" ELSE "ok">>)
        gebv == [len |-> a.n]
    IN  IF v # "ok" THEN rejected(v)
        ELSE [ret |-> gblup_status(status, gebv),
              native |-> <<[fn |-> "compute_gblup", status |-> status,
                            dims |-> <<as_c_int(a.n), as_c_int(a.m)>>,
                            out |-> <<gebv>>]>>]

\* the match on the status of the matrix kernels
matrix_status(status, out) ==
    IF status = 0 THEN Ok(out) ELSE Err(Unknown(status))

\* the body shared by compute_grm and compute_dominance: validate
\* genotypes against n * m, allocate n * n, call the kernel
matrix_wrapper(fn, a, status) ==
    LET v == len_check_mul(a.genotypes, a.n, a.m, a.overflow_checks)
        g_len == usize_mul(a.n, a.n, a.overflow_checks)
        g == [len |-> g_len.val]
    IN  IF v # "ok" THEN rejected(v)
        ELSE IF g_len.panic THEN [ret |-> Panicked, native |-> << >>]
        ELSE [ret |-> matrix_status(status, g),
              native |-> <<[fn |-> fn, status |-> status,
                            dims |-> <<as_c_int(a.n), as_c_int(a.m)>>,
                            out |-> <<g>>]>>]

\* pub fn compute_grm(genotypes, method, n, m)
compute_grm(a, status) ==
    matrix_wrapper(IF a.method = "VanRaden1" THEN "compute_grm_vanraden1"
                   ELSE "compute_grm_vanraden2", a, status)

\* pub fn compute_dominance(genotypes, n, m)
compute_dominance(a, status) == matrix_wrapper("compute_dominance_matrix", a, status)

\* pub fn compute_epistatic(grm, n)
compute_epistatic(a, status) ==
    LET v == len_check_mul(a.grm, a.n, a.n, a.overflow_checks)
        e_len == usize_mul(a.n, a.n, a.overflow_checks)
        e == [len |-> e_len.val]
    IN  IF v # "ok" THEN rejected(v)
        ELSE [ret |-> matrix_status(status, e),
              native |-> <<[fn |-> "compute_epistatic_matrix", status |-> status,
                            dims |-> <<as_c_int(a.n)>>,
                            out |-> <<e>>]>>]

\* `-iterations` on a c_int: negating the minimum overflows; a build with
\* overflow checks panics, one without wraps back to the minimum
c_int_neg(x, overflow_checks) ==
    IF x # C_INT_MIN THEN [panic |-> FALSE, val |-> -x]
    ELSE IF overflow_checks THEN [panic |-> TRUE, val |-> 0]
    ELSE [panic |-> FALSE, val |-> C_INT_MIN]

\* the translation of the return value of solve_mme
pcg_status(iterations, solution, overflow_checks) ==
    IF iterations < 0
    THEN IF iterations = -1 THEN Err(SolveFailure)
         ELSE LET neg == c_int_neg(iterations, overflow_checks)
              IN  IF neg.panic THEN Panicked
                  ELSE Err(ConvergenceFailure(neg.val))
    ELSE Ok(<<solution, iterations>>)

\* The native solve_mme (its source is not part of the repository's Rust
\* sources): the value it returns for each outcome of the solve, by the
\* sign convention of the boundary: the iteration count when it converged,
\* the reserved -1 when the solve failed outright, minus the attempted
\* count when the budget was exhausted; "other" is any value returned
\* outside that convention.
solve_mme(outcome) ==
    IF outcome.kind = "converged" THEN outcome.iterations
    ELSE IF outcome.kind = "solve_failed" THEN -1
    ELSE IF outcome.kind = "exhausted" THEN -outcome.iterations
    ELSE outcome.code

\* pub fn solve_mme_pcg(coefficient_matrix, rhs, initial_guess, tolerance,
\*                      max_iterations)
solve_mme_pcg(a, outcome) ==
    LET iterations == solve_mme(outcome)
        dim == a.rhs
        v == validate(<<len_check_mul(a.coefficient_matrix, dim, dim, a.overflow_checks),
                        len_check(a.initial_guess, dim)>>)
        solution == [len |-> a.initial_guess]
    IN  IF v # "ok" THEN rejected(v)
        ELSE [ret |-> pcg_status(iterations, solution, a.overflow_checks),
              native |-> <<[fn |-> "solve_mme", status |-> iterations,
                            outcome |-> outcome,
                            dims |-> <<as_c_int(dim), as_c_int(a.max_iterations)>>,
                            out |-> <<solution>>]>>]

----------------------------------------------------------------------------
(* rust/src/statistics.rs *)

\* the number of Gauss-Seidel sweeps of estimate_gblup, `for _ in 0..100`
GAUSS_SEIDEL_SWEEPS == 100

\* `let lambda = (1.0 - heritability) / heritability;`
estimate_gblup_lambda(heritability) ==
    f64_div(f64_sub(AsFloat(1), heritability), heritability)

\* the loop over the phenotypes that are not NaN: (sum, count) when it ends
estimate_gblup_sum_count(phenotypes) ==
    LET acc[k \in 0..Len(phenotypes)] ==
            IF k = 0 THEN [sum |-> AsFloat(0), count |-> 0]
            ELSE IF is_nan(phenotypes[k]) THEN acc[k - 1]
            ELSE [sum |-> f64_add(acc[k - 1].sum, phenotypes[k]),
                  count |-> acc[k - 1].count + 1]
    IN  acc[Len(phenotypes)]

\* `let mean = if count > 0 { sum / count as f64 } else { 0.0 };`
estimate_gblup_mean(phenotypes) ==
    LET sc == estimate_gblup_sum_count(phenotypes)
    IN  IF sc.count > 0 THEN f64_div(sc.sum, AsFloat(sc.count)) ELSE AsFloat(0)

\* var_sum, the sum of (p - mean)^2 over the phenotypes that are not NaN
estimate_gblup_var_sum(phenotypes, mean) ==
    LET acc[k \in 0..Len(phenotypes)] ==
            IF k = 0 THEN AsFloat(0)
            ELSE IF is_nan(phenotypes[k]) THEN acc[k - 1]
            ELSE LET d == f64_sub(phenotypes[k], mean)
                 IN  f64_add(acc[k - 1], f64_mul(d, d))
    IN  acc[Len(phenotypes)]

\* `if count > 1 { var_sum / (count - 1) as f64 } else { 1.0 }`
estimate_gblup_total_variance(phenotypes) ==
    LET count == estimate_gblup_sum_count(phenotypes).count
        mean == estimate_gblup_mean(phenotypes)
    IN  IF count > 1
        THEN f64_div(estimate_gblup_var_sum(phenotypes, mean), AsFloat(count - 1))
        ELSE AsFloat(1)

\* the coefficient matrix G + lambda I
estimate_gblup_coef(grm, n_individuals, lambda) ==
    [x \in 1..(n_individuals * n_individuals) |->
        LET i == (x - 1) \div n_individuals
            j == (x - 1) % n_individuals
        IN  IF i = j THEN f64_add(grm[x], lambda) ELSE grm[x]]

\* the right-hand side y - mean, 0.0 where the phenotype is NaN
estimate_gblup_rhs(phenotypes, mean) ==
    [x \in 1..Len(phenotypes) |->
        IF is_nan(phenotypes[x]) THEN AsFloat(0) ELSE f64_sub(phenotypes[x], mean)]

\* `coef[i * n + i].abs() > 1e-10`.  A non-zero value of the model has a
\* denominator below 2^31, so its magnitude is above 1e-10; an infinity
\* passes the test and a NaN does not.
estimate_gblup_pivot_ok(c) == ~is_nan(c) /\ c.num # 0

\* the body of `for i in 0..n_individuals` for one i: gebv[i] after it
gauss_seidel_row(coef, rhs, gebv, n_individuals, i) ==
    LET sum[j \in 0..n_individuals] ==
            IF j = 0 THEN rhs[i + 1]
            ELSE IF i # j - 1
            THEN f64_sub(sum[j - 1],
                         f64_mul(coef[i * n_individuals + (j - 1) + 1], gebv[j]))
            ELSE sum[j - 1]
        pivot == coef[i * n_individuals + i + 1]
    IN  IF estimate_gblup_pivot_ok(pivot)
        THEN f64_div(sum[n_individuals], pivot)
        ELSE gebv[i + 1]

\* one sweep: the rows in order, each reading the gebv the rows before it
\* in the same sweep have already written
gauss_seidel_sweep(coef, rhs, gebv, n_individuals) ==
    LET g[i \in 0..n_individuals] ==
            IF i = 0 THEN gebv
            ELSE [g[i - 1] EXCEPT
                     ![i] = gauss_seidel_row(coef, rhs, g[i - 1], n_individuals, i - 1)]
    IN  g[n_individuals]

\* gebv after `sweeps` further sweeps from gebv: the sweeps are composed by
\* halves, and a gebv that a sweep leaves unchanged, or that two sweeps
\* bring back, is not swept further (the remaining sweeps repeat it)
RECURSIVE gauss_seidel_from(_, _, _, _, _)
gauss_seidel_from(coef, rhs, gebv, n_individuals, sweeps) ==
    IF sweeps = 0 THEN gebv
    ELSE LET once == gauss_seidel_sweep(coef, rhs, gebv, n_individuals)
             twice == gauss_seidel_sweep(coef, rhs, once, n_individuals)
             half == sweeps \div 2
             mid == gauss_seidel_from(coef, rhs, gebv, n_individuals, half)
         IN  IF once = gebv \/ sweeps = 1 THEN once
             ELSE IF twice = gebv THEN (IF sweeps % 2 = 0 THEN gebv ELSE once)
             ELSE IF Len(mid) = n_individuals
             THEN gauss_seidel_from(coef, rhs, mid, n_individuals, sweeps - half)
             ELSE mid

\* gebv after `sweeps` sweeps from vec![0.0; n_individuals]
gauss_seidel(coef, rhs, n_individuals, sweeps) ==
    gauss_seidel_from(coef, rhs, ZeroVec(n_individuals), n_individuals, sweeps)

\* reliability[i] = (1.0 - pev).max(0.0).min(0.99), pev = lambda / (diag + lambda)
estimate_gblup_reliability(grm, n_individuals, lambda) ==
    [x \in 1..n_individuals |->
        LET diag == grm[(x - 1) * n_individuals + x]
            pev == f64_div(lambda, f64_add(diag, lambda))
        IN  f64_min(f64_max(f64_sub(AsFloat(1), pev), AsFloat(0)), Rat(99, 100))]

\* accuracy[i] = reliability[i].sqrt(), kept as the square root of a rational
estimate_gblup_accuracy(reliability) ==
    [x \in 1..Len(reliability) |-> [sqrt_of |-> reliability[x]]]

\* the function panics: n_individuals^2 overflows usize (at the
\* multiplication, or on the first index past the wrapped length), grm is
\* shorter than n_individuals^2 or phenotypes shorter than n_individuals
estimate_gblup_panics(phenotypes, grm, n_individuals) ==
    \/ n_individuals * n_individuals > USIZE_MAX
    \/ Len(grm) < n_individuals * n_individuals
    \/ Len(phenotypes) < n_individuals

\* the locals of estimate_gblup when it returns or panics
estimate_gblup_locals(phenotypes, grm, n_individuals, heritability) ==
    LET lambda == estimate_gblup_lambda(heritability)
        mean == estimate_gblup_mean(phenotypes)
        total_variance == estimate_gblup_total_variance(phenotypes)
    IN  IF estimate_gblup_panics(phenotypes, grm, n_individuals)
        THEN [stage |-> "panic", lambda |-> lambda, mean |-> mean,
              total_variance |-> total_variance]
        ELSE [stage |-> "solved", lambda |-> lambda, mean |-> mean,
              total_variance |-> total_variance,
              coef |-> estimate_gblup_coef(grm, n_individuals, lambda),
              rhs |-> estimate_gblup_rhs(phenotypes, mean)]

\* pub fn estimate_gblup(phenotypes, grm, n_individuals, heritability)
estimate_gblup(phenotypes, grm, n_individuals, heritability) ==
    LET l == estimate_gblup_locals(phenotypes, grm, n_individuals, heritability)
        reliability == estimate_gblup_reliability(grm, n_individuals, l.lambda)
    IN  IF l.stage = "panic" THEN Panicked
        ELSE [kind |-> "GBLUPResult",
              gebv |-> gauss_seidel(l.coef, l.rhs, n_individuals, GAUSS_SEIDEL_SWEEPS),
              reliability |-> reliability,
              accuracy |-> estimate_gblup_accuracy(reliability),
              mean |-> l.mean,
              genetic_variance |-> f64_mul(l.total_variance, heritability),
              residual_variance |->
                  f64_mul(l.total_variance, f64_sub(AsFloat(1), heritability))]

----------------------------------------------------------------------------
(* The callers' inputs *)

\* u8 genotype calls a caller passes: the dosages and two invalid codes
U8Calls == {0, 1, 2, 3, 255}

\* i32 genotype calls a caller passes: a negative (missing) code, the
\* dosages and an out-of-range code
I32Calls == {-1, 0, 1, 2, 3}

Buffers(S, n) == UNION {[1..k -> S] : k \in 0..n}

Dims == 0..MaxDim

\* dimensions a caller declares to a wrapper: none, one, two and the largest
KernelDims == {0, 1, 2, MaxDim}

\* lengths of the f64 slices handed to the wrappers
Lens == {0, 1, 2, MaxLen}

\* the two builds: with overflow checks (debug) and without (release)
Builds == BOOLEAN

\* heritabilities a caller passes
H2Values == {AsFloat(0), Rat(1, 2), AsFloat(1), Rat(-1, 2), Rat(3, 2), NaN}

\* phenotypes a caller passes: a missing record (NaN) and two values
PhenotypeValues == {NaN, AsFloat(0), AsFloat(2)}

\* cells of the relationship matrix handed to estimate_gblup
GrmCells == {AsFloat(-1), AsFloat(0), AsFloat(1)}

\* the relationship matrices handed to estimate_gblup: empty, one cell
\* and the longest buffer
GrmBuffers == UNION {[1..k -> GrmCells] : k \in {0, 1, MaxLen}}

\* The iterates of the Gauss-Seidel sweeps stay exact rationals of bounded
\* size: for every pair of rows the coupling c_ij c_ji is zero or has the
\* magnitude of c_ii c_jj (the iterates settle, alternate or grow
\* linearly), or a pivot is zero, infinite or NaN.  A call that panics
\* runs no sweep.
gauss_seidel_exact(phenotypes, grm, n_individuals, heritability) ==
    LET coef == estimate_gblup_coef(grm, n_individuals,
                                    estimate_gblup_lambda(heritability))
        c(i, j) == coef[i * n_individuals + j + 1]
    IN  IF estimate_gblup_panics(phenotypes, grm, n_individuals) THEN TRUE
        ELSE \A i \in 0..(n_individuals - 1), j \in 0..(n_individuals - 1) :
            i < j =>
                \/ c(i, j).num = 0 \/ c(j, i).num = 0
                \/ c(i, i).den = 0 \/ c(j, j).den = 0
                \/ c(i, i).num = 0 \/ c(j, j).num = 0
                \/ FAbs(FMul(c(i, j), c(j, i))) = FAbs(FMul(c(i, i), c(j, j)))

\* the calls and dimensions handed to the row-parallel build
ParCalls == {0, 1, 2, 255}
ParDims == 0..(MaxDim - 1)

\* cells of the matrices handed to calculate_eigenvalues, and the matrices:
\* the symmetric j x j matrices for the small j (the function is documented
\* for symmetric matrices)
EigenCells == {AsFloat(-1), AsFloat(0), AsFloat(1)}
SymmetricMatrices(j) == {m \in [1..(j * j) -> EigenCells] : Symmetric(m, j)}
EigenMatrices == UNION {SymmetricMatrices(j) : j \in 0..(MaxDim \div 2)}

\* values of `rng.gen::<f64>() - 0.5`, which lies in [-0.5, 0.5)
DrawValues == {Rat(-1, 2), AsFloat(0), Rat(1, 4)}

\* the random vectors one call draws: one of n components per eigenvalue
DrawSeqs(count, n) == [1..count -> [1..n -> DrawValues]]

\* the exact iterates of the call stay representable in the model
eigen_exact(matrix, n, draws) == eigen_rounds(matrix, n, draws).exact

GrmMethods == {"VanRaden1", "VanRaden2"}

\* what the native solve_mme can do with the budget max_iter it is handed:
\* converge within it, fail outright, exhaust it after attempting k >= 1
\* iterations, or return any value outside the convention
PcgOutcomes(max_iter) ==
    {[kind |-> "converged", iterations |-> k] :
        k \in 0..(IF max_iter > 0 THEN max_iter ELSE 0)}
    \cup {[kind |-> "solve_failed"]}
    \cup {[kind |-> "exhausted", iterations |-> k] : k \in 1..max_iter}
    \cup {[kind |-> "other", code |-> c] : c \in CInt}

----------------------------------------------------------------------------
(* Invocations *)

NoNative == << >>

Init ==
    /\ pc = "idle"
    /\ op = "none"
    /\ args = << >>
    /\ ret = << >>
    /\ locals = << >>
    /\ native = NoNative

Call_calculate_g_matrix ==
    /\ pc = "idle"
    /\ \E markers \in Buffers(U8Calls, MaxLen), n_markers \in Dims, n_individuals \in Dims :
        /\ op' = "calculate_g_matrix"
        /\ args' = [markers |-> markers, n_markers |-> n_markers,
                    n_individuals |-> n_individuals]
        /\ ret' = calculate_g_matrix(markers, n_markers, n_individuals)
        /\ locals' = g_matrix_locals(markers, n_markers, n_individuals)
    /\ native' = NoNative
    /\ pc' = "done"

Call_calculate_grm ==
    /\ pc = "idle"
    /\ \E genotypes \in Buffers(I32Calls, MaxLen), n_samples \in Dims, n_markers \in Dims :
        /\ op' = "calculate_grm"
        /\ args' = [genotypes |-> genotypes, n_samples |-> n_samples,
                    n_markers |-> n_markers]
        /\ ret' = calculate_grm(genotypes, n_samples, n_markers)
        /\ locals' = grm_locals(genotypes, n_samples, n_markers)
    /\ native' = NoNative
    /\ pc' = "done"

\* an invocation of a wrapper: r is what the wrapper did
Invoke(name, a, r) ==
    /\ op' = name
    /\ args' = a
    /\ ret' = r.ret
    /\ native' = r.native
    /\ locals' = << >>
    /\ pc' = "done"

Call_blup ==
    /\ pc = "idle"
    /\ \E phenotypes \in Lens, fixed_effects \in Lens, random_effects \in Lens,
          a_inverse \in Lens, n \in KernelDims, p \in KernelDims, q \in KernelDims,
          overflow_checks \in Builds, status \in CInt :
        LET a == [phenotypes |-> phenotypes, fixed_effects |-> fixed_effects,
                  random_effects |-> random_effects, a_inverse |-> a_inverse,
                  n |-> n, p |-> p, q |-> q, overflow_checks |-> overflow_checks]
        IN  Invoke("blup", a, blup(a, status))

Call_gblup ==
    /\ pc = "idle"
    /\ \E genotypes \in Lens, phenotypes \in Lens, heritability \in H2Values,
          n \in KernelDims, m \in KernelDims, overflow_checks \in Builds, status \in CInt :
        LET a == [genotypes |-> genotypes, phenotypes |-> phenotypes,
                  heritability |-> heritability, n |-> n, m |-> m,
                  overflow_checks |-> overflow_checks]
        IN  Invoke("gblup", a, gblup(a, status))

Call_compute_grm ==
    /\ pc = "idle"
    /\ \E genotypes \in Lens, method \in GrmMethods, n \in KernelDims, m \in KernelDims,
          overflow_checks \in Builds, status \in CInt :
        LET a == [genotypes |-> genotypes, method |-> method, n |-> n, m |-> m,
                  overflow_checks |-> overflow_checks]
        IN  Invoke("compute_grm", a, compute_grm(a, status))

Call_compute_dominance ==
    /\ pc = "idle"
    /\ \E genotypes \in Lens, n \in KernelDims, m \in KernelDims,
          overflow_checks \in Builds, status \in CInt :
        LET a == [genotypes |-> genotypes, n |-> n, m |-> m,
                  overflow_checks |-> overflow_checks]
        IN  Invoke("compute_dominance", a, compute_dominance(a, status))

Call_compute_epistatic ==
    /\ pc = "idle"
    /\ \E grm \in Lens, n \in KernelDims, overflow_checks \in Builds, status \in CInt :
        LET a == [grm |-> grm, n |-> n, overflow_checks |-> overflow_checks]
        IN  Invoke("compute_epistatic", a, compute_epistatic(a, status))

Call_solve_mme_pcg ==
    /\ pc = "idle"
    /\ \E coefficient_matrix \in Lens, rhs \in Lens, initial_guess \in Lens,
          max_iterations \in KernelDims, overflow_checks \in Builds :
        \E outcome \in PcgOutcomes(as_c_int(max_iterations)) :
            LET a == [coefficient_matrix |-> coefficient_matrix, rhs |-> rhs,
                      initial_guess |-> initial_guess,
                      max_iterations |-> max_iterations,
                      overflow_checks |-> overflow_checks]
            IN  Invoke("solve_mme_pcg", a, solve_mme_pcg(a, outcome))

Call_estimate_gblup ==
    /\ pc = "idle"
    /\ \E phenotypes \in Buffers(PhenotypeValues, MaxLen \div 2),
          grm \in GrmBuffers, n_individuals \in KernelDims :
      \E heritability \in {h \in H2Values :
                               gauss_seidel_exact(phenotypes, grm, n_individuals, h)} :
        /\ op' = "estimate_gblup"
        /\ args' = [phenotypes |-> phenotypes, grm |-> grm,
                    n_individuals |-> n_individuals, heritability |-> heritability]
        /\ ret' = estimate_gblup(phenotypes, grm, n_individuals, heritability)
        /\ locals' = estimate_gblup_locals(phenotypes, grm, n_individuals, heritability)
    /\ native' = NoNative
    /\ pc' = "done"

\* calculate_g_matrix on a target with threads, up to the point where the
\* row chunks of g are handed to the pool: an input that is rejected or has
\* a zero scale returns at once
Start_par_build ==
    /\ pc = "idle"
    /\ \E markers \in Buffers(ParCalls, MaxLen), n_markers \in ParDims,
          n_individuals \in ParDims :
        LET l == g_matrix_locals(markers, n_markers, n_individuals)
        IN  /\ op' = "calculate_g_matrix"
            /\ args' = [markers |-> markers, n_markers |-> n_markers,
                        n_individuals |-> n_individuals]
            /\ IF l.stage = "built"
               THEN /\ pc' = "par_build"
                    /\ ret' = << >>
                    /\ locals' = [stage |-> "built", freqs |-> l.freqs, counts |-> l.counts,
                                  scale |-> l.scale, g_len |-> l.g_len, z |-> l.z,
                                  g |-> ZeroVec(l.g_len),
                                  next |-> [i \in 0..(n_individuals - 1) |-> 0],
                                  written |-> [x \in 1..l.g_len |-> << >>]]
               ELSE /\ pc' = "done"
                    /\ ret' = calculate_g_matrix(markers, n_markers, n_individuals)
                    /\ locals' = l
    /\ native' = NoNative

\* one iteration of `for j in 0..n_individuals` in the closure run on chunk
\* i; `written` records, for every cell of g, the chunks whose closure
\* stored into it
RowWorker(i) ==
    /\ pc = "par_build"
    /\ locals.next[i] < args.n_individuals
    /\ LET j == locals.next[i]
           cell == chunk_cell(i, j, args.n_individuals)
       IN  locals' = [locals EXCEPT
                        !.g = row_write(locals.g, locals.z, locals.scale, args.n_markers,
                                        args.n_individuals, i, j),
                        !.next[i] = j + 1,
                        !.written[cell] = Append(@, i)]
    /\ UNCHANGED <<pc, op, args, ret, native>>

\* any chunk's closure takes its next step
RowWorkers ==
    /\ pc = "par_build"
    /\ \E i \in 0..(args.n_individuals - 1) : RowWorker(i)

\* for_each returns when every closure has: g is the function's result
Join ==
    /\ pc = "par_build"
    /\ \A i \in 0..(args.n_individuals - 1) : locals.next[i] = args.n_individuals
    /\ ret' = locals.g
    /\ pc' = "done"
    /\ UNCHANGED <<op, args, locals, native>>

\* calculate_eigenvalues and the vectors rand::thread_rng() hands it: the
\* generator's state is not an argument, so the draws are any values; a
\* call that panics does so before the first draw matters
Call_calculate_eigenvalues ==
    /\ pc = "idle"
    /\ \E matrix \in EigenMatrices, n \in KernelDims, k \in KernelDims :
        LET count == IF eigen_panics(matrix, n, k) THEN 0 ELSE eigen_count(n, k)
        IN  \E draws \in {d \in DrawSeqs(count, n) : eigen_exact(matrix, n, d)} :
                /\ op' = "calculate_eigenvalues"
                /\ args' = [matrix |-> matrix, n |-> n, k |-> k]
                /\ ret' = calculate_eigenvalues(matrix, n, k, draws)
                /\ locals' = [draws |-> draws]
    /\ native' = NoNative
    /\ pc' = "done"

Return ==
    /\ pc = "done"
    /\ pc' = "idle"
    /\ op' = "none"
    /\ args' = << >>
    /\ ret' = << >>
    /\ locals' = << >>
    /\ native' = NoNative

NextBuilder == Call_calculate_g_matrix \/ Call_calculate_grm \/ Return

SpecBuilder == Init /\ [][NextBuilder]_vars

NextKernel ==
    \/ Call_blup
    \/ Call_gblup
    \/ Call_compute_grm
    \/ Call_compute_dominance
    \/ Call_compute_epistatic
    \/ Call_solve_mme_pcg
    \/ Return

SpecKernel == Init /\ [][NextKernel]_vars

NextStatistics == Call_estimate_gblup \/ Return

SpecStatistics == Init /\ [][NextStatistics]_vars

NextParallel ==
    \/ Start_par_build
    \/ RowWorkers
    \/ Join
    \/ Return

SpecParallel == Init /\ [][NextParallel]_vars

NextEigen == Call_calculate_eigenvalues \/ Return

SpecEigen == Init /\ [][NextEigen]_vars

----------------------------------------------------------------------------
(* Properties *)

Returned(name) == pc = "done" /\ op = name

\* the mathematical product overflows usize
Overflows(a, b) == a * b > USIZE_MAX

\* the input of calculate_g_matrix is one the function must reject
GMatrixIllShaped(a) ==
    \/ a.n_markers = 0
    \/ a.n_individuals = 0
    \/ Overflows(a.n_markers, a.n_individuals)
    \/ Overflows(a.n_individuals, a.n_individuals)
    \/ Len(a.markers) # a.n_markers * a.n_individuals

\* C1: calculate_g_matrix returns the empty vector, having computed
\* nothing, when a dimension is 0, when n_markers * n_individuals or
\* n_individuals^2 overflows usize, or when the buffer length is not
\* n_markers * n_individuals; for every other input it returns exactly
\* n_individuals^2 entries, so never a length strictly between.
C1_EmptyOrFull ==
    Returned("calculate_g_matrix") =>
        /\ GMatrixIllShaped(args) => (ret = << >> /\ locals.stage = "rejected")
        /\ ~GMatrixIllShaped(args) =>
              /\ Len(ret) = args.n_individuals * args.n_individuals
              /\ locals.stage # "rejected"
        /\ Len(ret) \in {0, args.n_individuals * args.n_individuals}

\* a buffer of the right length whose n_individuals^2 overflows is rejected
C1_Witness ==
    /\ Returned("calculate_g_matrix")
    /\ Len(args.markers) = args.n_markers * args.n_individuals
    /\ args.n_markers > 0
    /\ Overflows(args.n_individuals, args.n_individuals)
    /\ ret = << >>

\* cell (i, k) of a row-major n x n matrix
\* C6: the matrix a relationship-matrix builder returns for a well-shaped
\* input is exactly symmetric, G[i*n+k] = G[k*n+i] for all i, k, missing
\* and invalid calls included.
C6_Symmetric ==
    /\ (Returned("calculate_g_matrix") /\ ret # << >>) =>
          Symmetric(ret, args.n_individuals)
    /\ (Returned("calculate_grm") /\ ret.kind = "GRMResult") =>
          Symmetric(ret.matrix, args.n_samples)

\* a built matrix with a missing call and a non-zero off-diagonal cell
C6_Witness ==
    /\ Returned("calculate_g_matrix")
    /\ locals.stage = "built"
    /\ args.n_individuals >= 2
    /\ \E x \in 1..Len(args.markers) : args.markers[x] > 2
    /\ Cell(ret, args.n_individuals, 0, 1).num # 0
    /\ Cell(ret, args.n_individuals, 0, 1) # Cell(ret, args.n_individuals, 0, 0)

\* column j (from 0) of a row-major matrix with n_cols columns
Column(buf, n_rows, n_cols, j) == [i1 \in 1..n_rows |-> buf[(i1 - 1) * n_cols + j + 1]]

IsDosage(v) == v \in {0, 1, 2}

\* the column holds one dosage for all individuals, or no valid call
FixedOrMissing(col) ==
    \/ \E d \in {0, 1, 2} : \A x \in 1..Len(col) : col[x] = d
    \/ \A x \in 1..Len(col) : ~IsDosage(col[x])

\* C7: when every marker column of a well-shaped input is fixed (0, 1 or
\* 2 for all individuals) or entirely missing, calculate_g_matrix returns
\* the all-zero matrix of length n_individuals^2.
C7_FixedGivesZero ==
    (/\ Returned("calculate_g_matrix")
     /\ ~GMatrixIllShaped(args)
     /\ \A j \in 0..(args.n_markers - 1) :
            FixedOrMissing(Column(args.markers, args.n_individuals, args.n_markers, j)))
    => ret = ZeroVec(args.n_individuals * args.n_individuals)

\* an all-heterozygous column beside a missing one: the scale is not zero
\* and the matrix is built, yet it is all zero
C7_Witness ==
    /\ Returned("calculate_g_matrix")
    /\ args.n_individuals = 2 /\ args.n_markers = 2
    /\ args.markers = <<1, 255, 1, 255>>
    /\ locals.stage = "built"
    /\ ret = ZeroVec(4)

\* the valid calls of a column, in order
ValidCalls(col) == SelectSeq(col, IsDosage)

\* the buffer with every invalid code replaced by the code c
WithInvalidCode(buf, c) == [x \in 1..Len(buf) |-> IF IsDosage(buf[x]) THEN buf[x] ELSE c]

\* C8: an invalid call is left out of its marker's count, sum and
\* frequency as if it were omitted from the column: count and frequency of
\* every marker are those of the column's valid calls alone, and the
\* matrix returned does not depend on which invalid code was used.
C8_InvalidExcluded ==
    (Returned("calculate_g_matrix") /\ ~GMatrixIllShaped(args)) =>
        /\ \A j \in 0..(args.n_markers - 1) :
              LET valid == ValidCalls(Column(args.markers, args.n_individuals,
                                             args.n_markers, j))
              IN  /\ locals.counts[j + 1] = Len(valid)
                  /\ locals.counts[j + 1] = g_matrix_counts(valid, 1, Len(valid))[1]
                  /\ locals.freqs[j + 1] = g_matrix_freqs(valid, 1, Len(valid))[1]
        /\ \A c \in {v \in U8Calls : ~IsDosage(v)} :
              ret = calculate_g_matrix(WithInvalidCode(args.markers, c),
                                       args.n_markers, args.n_individuals)

\* the input of the test calculate_g_matrix_ignores_invalid_genotypes,
\* with the other invalid code
C8_Witness ==
    /\ Returned("calculate_g_matrix")
    /\ args.n_individuals = 2 /\ args.n_markers = 2
    /\ args.markers = <<0, 2, 3, 1>>
    /\ locals.counts = <<1, 2>>
    /\ locals.freqs = <<AsFloat(0), Rat(3, 4)>>
    /\ ret = <<Rat(2, 3), Rat(-2, 3), Rat(-2, 3), Rat(2, 3)>>

WorkedExample ==
    /\ Returned("calculate_g_matrix")
    /\ args.n_individuals = 2 /\ args.n_markers = 2
    /\ args.markers = <<0, 2, 1, 1>>

\* C9: for individuals = 2, markers = 2 and genotypes [0,2, 1,1],
\* calculate_g_matrix returns [2/3, -2/3, -2/3, 2/3] within 1e-5, equal
\* to Z Z^T / scale for the Z and scale it derived.
C9_WorkedExampleG ==
    WorkedExample =>
        LET expected == <<Rat(2, 3), Rat(-2, 3), Rat(-2, 3), Rat(2, 3)>>
            z == locals.z
        IN  /\ Len(ret) = 4
            /\ \A c \in 1..4 : FLt(FAbs(FSub(ret[c], expected[c])), Rat(1, 100000))
            /\ \A i \in 0..1, k \in 0..1 :
                  Cell(ret, 2, i, k) =
                      FDiv(FAdd(FMul(z[2 * i + 1], z[2 * k + 1]),
                                FMul(z[2 * i + 2], z[2 * k + 2])), locals.scale)

C9_Witness == WorkedExample /\ ret[1] = Rat(2, 3) /\ ret[2] = Rat(-2, 3)

\* C10 as stated: for the worked example the frequencies are [0.5, 0.5],
\* the scale is 1.0 and Z = [[-1, 1], [0, 0]].
C10_AsStated ==
    WorkedExample =>
        /\ locals.freqs = <<Rat(1, 2), Rat(1, 2)>>
        /\ locals.scale = AsFloat(1)
        /\ locals.z = <<AsFloat(-1), AsFloat(1), AsFloat(0), AsFloat(0)>>

\* C10, amended: for individuals = 2, markers = 2 and genotypes
\* [0,2, 1,1] the frequencies are [0.25, 0.75], the scale is 0.75 and
\* Z = [[-0.5, 0.5], [0.5, -0.5]].
C10_WorkedExampleLocals ==
    WorkedExample =>
        /\ locals.freqs = <<Rat(1, 4), Rat(3, 4)>>
        /\ locals.scale = Rat(3, 4)
        /\ locals.z = <<Rat(-1, 2), Rat(1, 2), Rat(1, 2), Rat(-1, 2)>>

C10_Witness == WorkedExample /\ locals.stage = "built" /\ locals.counts = <<2, 2>>

IsWrapper ==
    op \in {"blup", "gblup", "compute_grm", "compute_dominance",
            "compute_epistatic", "solve_mme_pcg"}

IsStatusWrapper ==
    op \in {"blup", "gblup", "compute_grm", "compute_dominance", "compute_epistatic"}

\* some buffer's length differs from the length the declared dimensions imply
LengthMismatch ==
    IF op = "blup"
    THEN \/ args.phenotypes # args.n
         \/ args.fixed_effects # args.n * args.p
         \/ args.random_effects # args.n * args.q
         \/ args.a_inverse # args.q * args.q
    ELSE IF op = "gblup"
    THEN args.genotypes # args.n * args.m \/ args.phenotypes # args.n
    ELSE IF op \in {"compute_grm", "compute_dominance"}
    THEN args.genotypes # args.n * args.m
    ELSE IF op = "compute_epistatic"
    THEN args.grm # args.n * args.n
    ELSE args.coefficient_matrix # args.rhs * args.rhs \/ args.initial_guess # args.rhs

NativeCalled == native # << >>

\* C2: a wrapper given a buffer whose length differs from the length its
\* declared dimensions imply returns Err(InvalidDimensions) and makes no
\* native call: a native call happens only after every length check passed.
C2_MismatchRejected ==
    (pc = "done" /\ IsWrapper /\ LengthMismatch) =>
        (ret = Err(InvalidDimensions) /\ ~NativeCalled)

\* the status codes a wrapper's match names
Recognised ==
    IF op = "blup" THEN {0, -1}
    ELSE IF op = "gblup" THEN {0, -1, -2}
    ELSE {0}

\* C3: a status-code wrapper returns Ok if and only if the kernel returned
\* status 0; every non-zero status gives an Err, and a status the wrapper
\* does not recognise gives Unknown(c) with exactly the code returned.
C3_StatusTranslation ==
    (pc = "done" /\ IsStatusWrapper) =>
        /\ ret.kind = "Ok" <=> (NativeCalled /\ native[1].status = 0)
        /\ NativeCalled =>
              LET c == native[1].status
              IN  /\ c # 0 => ret.kind = "Err"
                  /\ c \notin Recognised => ret = Err(Unknown(c))

\* a positive status is reported as Unknown with that code
C3_Witness ==
    /\ Returned("gblup")
    /\ NativeCalled
    /\ native[1].status = C_INT_MAX
    /\ ret = Err(Unknown(C_INT_MAX))

\* C4: solve_mme_pcg maps the kernel's return value r to exactly one of
\* three outcomes: r >= 0 gives Ok((solution, r)), r = -1 gives
\* Err(SolveFailure), any other negative r gives Err(ConvergenceFailure).
C4_ThreeOutcomes ==
    (Returned("solve_mme_pcg") /\ NativeCalled) =>
        LET r == native[1].status
        IN  /\ r >= 0 => ret = Ok(<<native[1].out[1], r>>)
            /\ r = -1 => ret = Err(SolveFailure)
            /\ r < -1 => (ret.kind = "Err" /\ ret.error.tag = "ConvergenceFailure")

\* C5: when the PCG kernel exhausts its budget after k >= 1 iterations
\* (its return value has magnitude k), solve_mme_pcg returns
\* Err(ConvergenceFailure{iterations: k}), never SolveFailure.
C5_ExhaustedReported ==
    (/\ Returned("solve_mme_pcg")
     /\ NativeCalled
     /\ native[1].outcome.kind = "exhausted")
    => ret = Err(ConvergenceFailure(native[1].outcome.iterations))

\* C11: calculate_grm given a buffer whose length differs from
\* n_samples * n_markers returns the empty or zero-shaped result (no cell,
\* or cells that are all zero): it neither faults on an index out of range
\* nor computes a matrix from a prefix of the buffer.  Stated for sample
\* counts whose square fits usize, where the only fault left is the index.
C11_GrmRejectsMismatch ==
    (Returned("calculate_grm") /\ Len(args.genotypes) # args.n_samples * args.n_markers
        /\ ~Overflows(args.n_samples, args.n_samples))
    => /\ ret.kind = "GRMResult"
       /\ \A x \in 1..Len(ret.matrix) : ret.matrix[x] = AsFloat(0)

\* the i32 buffer with every call outside {0, 1, 2} replaced by c
\* (WithInvalidCode does the same on any buffer)
GrmCallsOf(genotypes, j, n_samples, n_markers) ==
    ValidCalls(Column(genotypes, n_samples, n_markers, j))

\* C12: a call is valid if and only if it lies in {0,1,2}: calculate_grm
\* leaves a value >= 3 out of the marker's count, sum and frequency and
\* centres it to 0, as it does a negative value, and calculate_g_matrix
\* does so for every value > 2.
C12_ValidIffDosage ==
    /\ (Returned("calculate_grm") /\ ret.kind = "GRMResult") =>
          /\ \A j \in 0..(args.n_markers - 1) :
                LET valid == GrmCallsOf(args.genotypes, j, args.n_samples, args.n_markers)
                IN  /\ locals.counts[j + 1] = Len(valid)
                    /\ locals.freqs[j + 1] = grm_freqs(valid, Len(valid), 1)[1]
          /\ \A x \in 1..(args.n_samples * args.n_markers) :
                ~IsDosage(args.genotypes[x]) => locals.z[x] = AsFloat(0)
          /\ ret = calculate_grm(WithInvalidCode(args.genotypes, -1),
                                 args.n_samples, args.n_markers)
    /\ (Returned("calculate_g_matrix") /\ locals.stage = "built") =>
          \A x \in 1..Len(args.markers) :
              ~IsDosage(args.markers[x]) => locals.z[x] = AsFloat(0)

\* C13: whenever the scaling denominator calculate_grm computes is exactly
\* zero, the matrix it returns is the all-zero n_samples x n_samples matrix.
C13_GrmZeroScaleGivesZero ==
    (Returned("calculate_grm") /\ ret.kind = "GRMResult"
        /\ locals.raw_scale = AsFloat(0))
    => ret.matrix = ZeroVec(args.n_samples * args.n_samples)

\* the heritability lies outside the open interval (0, 1)
H2OutOfRange(h2) == FLt(h2, AsFloat(0)) \/ h2 = AsFloat(0) \/ h2 = AsFloat(1) \/ FLt(AsFloat(1), h2)

H2Inside(h2) == FLt(AsFloat(0), h2) /\ FLt(h2, AsFloat(1))

\* C14: gblup returns Err(InvalidDimensions) for every heritability
\* h2 <= 0 or h2 >= 1, 0 and 1 included, without calling compute_gblup and
\* without returning an output buffer; for well-shaped buffers and h2
\* strictly inside (0,1) compute_gblup is called exactly once.
C14_H2Rejected ==
    /\ (Returned("gblup") /\ H2OutOfRange(args.heritability)) =>
          (ret = Err(InvalidDimensions) /\ ~NativeCalled)
    /\ (Returned("gblup") /\ ~LengthMismatch /\ H2Inside(args.heritability)) =>
          (Len(native) = 1 /\ native[1].fn = "compute_gblup")

\* C15: estimate_gblup rejects a heritability of 0 and of 1 before it
\* forms lambda = (1 - h2)/h2: with h2 in {0, 1} no lambda is computed, no
\* coefficient system is built and no result is returned.
C15_H2RejectedInProcess ==
    (Returned("estimate_gblup") /\ args.heritability \in {AsFloat(0), AsFloat(1)}) =>
        /\ ret.kind # "GBLUPResult"
        /\ "lambda" \notin DOMAIN locals
        /\ "coef" \notin DOMAIN locals

\* the row-parallel build is under way or has returned its matrix
ParBuilt == pc \in {"par_build", "done"} /\ op = "calculate_g_matrix"
              /\ "written" \in DOMAIN locals

\* C16: in the parallel build of G every cell G[i][j] is written exactly
\* once, and only by the worker owning row i: at no point of any
\* interleaving has a cell been written twice or by another row's worker,
\* when the build has returned every cell has been written, and z and
\* scale are what they were before the workers started.
C16_DisjointRowWrites ==
    ParBuilt =>
        /\ \A x \in 1..locals.g_len :
              /\ Len(locals.written[x]) <= 1
              /\ \A w \in 1..Len(locals.written[x]) :
                    locals.written[x][w] = (x - 1) \div args.n_individuals
              /\ pc = "done" => Len(locals.written[x]) = 1
        /\ LET l == g_matrix_locals(args.markers, args.n_markers, args.n_individuals)
           IN  locals.z = l.z /\ locals.scale = l.scale

\* two rows, every cell written, the build returned
C16_Witness ==
    /\ ParBuilt /\ pc = "done"
    /\ args.n_individuals >= 2
    /\ \A x \in 1..locals.g_len : Len(locals.written[x]) = 1

\* C17: for every input and every interleaving of the row workers the
\* parallel path produces, cell for cell, the matrix of the sequential
\* path: every cell a worker has written holds the sequential value, and
\* the matrix returned is the sequential one.
C17_ParallelEqualsSequential ==
    ParBuilt =>
        LET seq == g_matrix_sequential(locals.z, locals.scale, args.n_markers,
                                       args.n_individuals)
        IN  /\ \A x \in 1..locals.g_len :
                  locals.written[x] # << >> => locals.g[x] = seq[x]
            /\ pc = "done" => ret = seq

\* the last row's worker has finished before the first row's has started,
\* on a matrix with a non-zero cell
C17_Witness ==
    /\ ParBuilt /\ pc = "par_build"
    /\ args.n_individuals >= 2
    /\ locals.next[0] = 0
    /\ locals.next[args.n_individuals - 1] = args.n_individuals
    /\ locals.g[locals.g_len] # AsFloat(0)

\* the u8 buffer as the i32 buffer calculate_grm is handed: the missing
\* code 255 becomes the negative code -1
AsI32Calls(markers) ==
    [x \in 1..Len(markers) |-> IF markers[x] = 255 THEN -1 ELSE markers[x]]

\* a genotype matrix: at least one individual and one marker, and one call
\* in {0,1,2} or the missing code per individual and marker
GenotypeMatrix(a) ==
    /\ a.n_individuals > 0 /\ a.n_markers > 0
    /\ \A x \in 1..Len(a.markers) : a.markers[x] \in {0, 1, 2, 255}
    /\ Len(a.markers) = a.n_markers * a.n_individuals

\* C18: for every genotype matrix whose calls are in {0,1,2} or missing
\* (255 for u8, negative for i32), calculate_g_matrix and calculate_grm
\* return the same relationship matrix, the zero-scale case included.
C18_BuildersAgree ==
    (Returned("calculate_g_matrix") /\ GenotypeMatrix(args)) =>
        LET grm == calculate_grm(AsI32Calls(args.markers),
                                 args.n_individuals, args.n_markers)
        IN  grm.kind = "GRMResult" /\ grm.matrix = ret

\* no random vector drawn has a zero component
NoZeroDraw(draws) ==
    \A r \in 1..Len(draws) : \A c \in 1..Len(draws[r]) : draws[r][c].num # 0

\* C19: calculate_eigenvalues is a pure function of its arguments: an
\* invocation with the same matrix, n and k returns the same result
\* whatever the thread-local generator hands out.  Stated for random
\* vectors without a zero component.
C19_EigenDeterministic ==
    (Returned("calculate_eigenvalues") /\ NoZeroDraw(locals.draws)) =>
        \A d \in DrawSeqs(Len(locals.draws), args.n) :
            (NoZeroDraw(d) /\ eigen_exact(args.matrix, args.n, d)) =>
                calculate_eigenvalues(args.matrix, args.n, args.k, d) = ret

\* the diagonal of an n x n matrix
Diagonal(matrix, n) == [x \in 1..n |-> matrix[(x - 1) * n + x]]

IsDiagonalMatrix(matrix, n) ==
    /\ Len(matrix) = n * n
    /\ \A x \in 1..(n * n) :
          (x - 1) \div n # (x - 1) % n => matrix[x] = AsFloat(0)

\* s is some arrangement of the values of t
IsPermutation(s, t) ==
    /\ Len(s) = Len(t)
    /\ \E f \in [1..Len(s) -> 1..Len(s)] :
          /\ \A x, y \in 1..Len(s) : x # y => f[x] # f[y]
          /\ \A x \in 1..Len(s) : s[x] = t[f[x]]

\* C20: for a diagonal n x n matrix with pairwise distinct diagonal values
\* and k = n, calculate_eigenvalues returns the absolute values of the
\* diagonal entries in non-increasing order, for every random starting
\* vector drawn.  Stated for starting vectors without a zero component.
C20_DiagonalRecovered ==
    LET diag == Diagonal(args.matrix, args.n)
        distinct == \A x, y \in 1..args.n : x # y => diag[x] # diag[y]
    IN  (/\ Returned("calculate_eigenvalues")
         /\ args.n >= 1
         /\ args.k = args.n
         /\ IsDiagonalMatrix(args.matrix, args.n)
         /\ distinct
         /\ NoZeroDraw(locals.draws))
        => /\ ret.kind = "EigenResult"
           /\ IsPermutation(ret.eigenvalues, [x \in 1..args.n |-> FAbs(diag[x])])
           /\ \A x \in 1..(args.n - 1) : ~FLt(ret.eigenvalues[x], ret.eigenvalues[x + 1])


\* `sweeps` sweeps from gebv, one after the other with none left out
RECURSIVE SweepsInTurn(_, _, _, _, _)
SweepsInTurn(coef, rhs, gebv, n_individuals, sweeps) ==
    IF sweeps = 0 THEN gebv
    ELSE IF sweeps = 1 THEN gauss_seidel_sweep(coef, rhs, gebv, n_individuals)
    ELSE LET mid == SweepsInTurn(coef, rhs, gebv, n_individuals, sweeps \div 2)
         IN  IF Len(mid) = n_individuals
             THEN SweepsInTurn(coef, rhs, mid, n_individuals, sweeps - (sweeps \div 2))
             ELSE mid

\* the coefficient matrix of the call can be built: n_individuals^2 fits a
\* usize and grm holds that many cells
CoefBuilt ==
    /\ ~Overflows(args.n_individuals, args.n_individuals)
    /\ Len(args.grm) >= args.n_individuals * args.n_individuals

\* C21: the Gauss-Seidel solve of estimate_gblup has no failure path: for
\* every input whose coefficient matrix is built it runs exactly 100 sweeps
\* from u = 0, none left out, and the call returns a result with exactly
\* n_individuals breeding values; it never aborts.
C21_GaussSeidelNoFailure ==
    (Returned("estimate_gblup") /\ CoefBuilt) =>
        /\ ret.kind = "GBLUPResult"
        /\ Len(ret.gebv) = args.n_individuals
        /\ ret.gebv = SweepsInTurn(locals.coef, locals.rhs,
                                   ZeroVec(args.n_individuals),
                                   args.n_individuals, 100)


\* |c| < 1e-10 for a value of the model: a finite non-zero value has a
\* magnitude above 1e-10, and no comparison with a NaN holds
NumericallyZero(c) == c.den # 0 /\ c.num = 0

\* u[i] after the update of row i as the claim states it:
\* (r[i] - sum over j # i of C[i][j] u[j]) / C[i][i], skipped exactly when
\* |C[i][i]| < 1e-10
StatedRow(coef, rhs, u, n, i) ==
    LET off[j \in 0..n] ==
            IF j = 0 THEN AsFloat(0)
            ELSE IF j - 1 = i THEN off[j - 1]
            ELSE f64_add(off[j - 1], f64_mul(coef[i * n + j], u[j]))
        pivot == coef[i * n + i + 1]
    IN  IF NumericallyZero(pivot) THEN u[i + 1]
        ELSE f64_div(f64_sub(rhs[i + 1], off[n]), pivot)

\* one sweep as stated: rows 0..n-1 in order, row i reading the u[j] of the
\* same sweep for j < i and those of the sweep before for j > i
StatedSweep(coef, rhs, u, n) ==
    LET g[i \in 0..n] ==
            IF i = 0 THEN u
            ELSE [g[i - 1] EXCEPT ![i] = StatedRow(coef, rhs, g[i - 1], n, i - 1)]
    IN  g[n]

RECURSIVE StatedSweeps(_, _, _, _, _)
StatedSweeps(coef, rhs, u, n, sweeps) ==
    IF sweeps = 0 THEN u
    ELSE IF sweeps = 1 THEN StatedSweep(coef, rhs, u, n)
    ELSE LET mid == StatedSweeps(coef, rhs, u, n, sweeps \div 2)
         IN  IF Len(mid) = n
             THEN StatedSweeps(coef, rhs, mid, n, sweeps - (sweeps \div 2))
             ELSE mid

\* C = G + lambda I and r[i] = phenotype[i] - mean, 0 for a NaN phenotype
StatedSystem ==
    /\ \A i \in 0..(args.n_individuals - 1), j \in 0..(args.n_individuals - 1) :
          Cell(locals.coef, args.n_individuals, i, j)
              = IF i = j
                THEN f64_add(Cell(args.grm, args.n_individuals, i, j), locals.lambda)
                ELSE Cell(args.grm, args.n_individuals, i, j)
    /\ \A i \in 1..args.n_individuals :
          locals.rhs[i] = IF is_nan(args.phenotypes[i]) THEN AsFloat(0)
                          ELSE f64_sub(args.phenotypes[i], locals.mean)

\* C22: the breeding values estimate_gblup returns are those of the stated
\* sweep repeated from u = 0: row by row in order,
\* u[i] := (r[i] - sum over j # i of C[i][j] u[j]) / C[i][i] with the u[j]
\* of the same sweep for j < i, the update skipped exactly when
\* |C[i][i]| < 1e-10; C = G + lambda I, r[i] = phenotype[i] - mean, 0 for a
\* NaN phenotype.
C22_SweepAsStated ==
    (Returned("estimate_gblup") /\ ret.kind = "GBLUPResult") =>
        /\ StatedSystem
        /\ ret.gebv = StatedSweeps(locals.coef, locals.rhs,
                                   ZeroVec(args.n_individuals),
                                   args.n_individuals, GAUSS_SEIDEL_SWEEPS)


\* a builder has computed the frequencies and the scale
FreqsComputed ==
    pc = "done" /\ op \in {"calculate_g_matrix", "calculate_grm"}
        /\ "freqs" \in DOMAIN locals

\* the scale the marker loop has summed (calculate_grm then replaces a
\* zero by 1.0)
SummedScale == IF op = "calculate_grm" THEN locals.raw_scale ELSE locals.scale

\* the markers (from 1) with a valid call and a frequency strictly inside (0, 1)
ScaleMarkers ==
    {j \in 1..args.n_markers :
        /\ locals.counts[j] > 0
        /\ FLt(AsFloat(0), locals.freqs[j]) /\ FLt(locals.freqs[j], AsFloat(1))}

\* the sum of 2 p (1 - p) over ScaleMarkers
StatedScale ==
    LET acc[j \in 0..args.n_markers] ==
            IF j = 0 THEN AsFloat(0)
            ELSE IF j \in ScaleMarkers
            THEN FAdd(acc[j - 1],
                      FMul(AsFloat(2), FMul(locals.freqs[j],
                                            FSub(AsFloat(1), locals.freqs[j]))))
            ELSE acc[j - 1]
    IN  acc[args.n_markers]

\* C23: in both builders every allele frequency lies in [0, 1], a marker
\* with no valid call has frequency exactly 0, and the scale is the sum of
\* 2 p (1 - p) > 0 over the markers with a valid call and 0 < p < 1 only:
\* it is never negative, and is 0 exactly when there is no such marker.
C23_FreqsAndScale ==
    FreqsComputed =>
        /\ \A j \in 1..args.n_markers :
              /\ ~FLt(locals.freqs[j], AsFloat(0))
              /\ ~FLt(AsFloat(1), locals.freqs[j])
              /\ locals.counts[j] = 0 => locals.freqs[j] = AsFloat(0)
        /\ SummedScale = StatedScale
        /\ ~FLt(SummedScale, AsFloat(0))
        /\ (SummedScale = AsFloat(0)) <=> (ScaleMarkers = {})


\* a builder has centred the genotypes
Centred ==
    pc = "done" /\ op \in {"calculate_g_matrix", "calculate_grm"}
        /\ "z" \in DOMAIN locals

\* the calls handed to the builder and the number of its rows
CallsOf(a) == IF "genotypes" \in DOMAIN a THEN a.genotypes ELSE a.markers
RowsOf(a) == IF "n_samples" \in DOMAIN a THEN a.n_samples ELSE a.n_individuals

\* C24: Z has the shape of the genotype matrix, and at every position
\* Z = call - 2 * frequency of the marker when the call is valid (0, 1, 2)
\* and Z = 0 when it is missing or invalid: no value is imputed for it.
C24_CentredMatrix ==
    Centred =>
        /\ Len(locals.z) = RowsOf(args) * args.n_markers
        /\ \A x \in 1..(RowsOf(args) * args.n_markers) :
              locals.z[x] =
                  IF IsDosage(CallsOf(args)[x])
                  THEN FSub(AsFloat(CallsOf(args)[x]),
                            FMul(AsFloat(2), locals.freqs[((x - 1) % args.n_markers) + 1]))
                  ELSE AsFloat(0)


\* the working matrix after the first t rounds of the call
WorkingMatrix(t) ==
    eigen_rounds(args.matrix, args.n, SubSeq(locals.draws, 1, t)).deflated

\* round t starts from a vector of norm 0, or on a working matrix of NaN:
\* its vector v is NaN in every component
RoundOfNaN(t) == is_nan(WorkingMatrix(t - 1)[1]) \/ is_zero_vec(locals.draws[t])

\* the direction of the vector v of round t after its power iterations
RoundVector(t) ==
    power_iterations(WorkingMatrix(t - 1),
                     [ok |-> TRUE, w |-> same_direction(locals.draws[t])],
                     args.n, POWER_ITERATIONS).w

\* before - q * v * v^T for the unit vector v = w / |w|
Deflated(before, q, w, n) ==
    [x \in 1..(n * n) |->
        f64_sub(before[x],
                f64_div(f64_mul(q, f64_mul(w[((x - 1) \div n) + 1], w[((x - 1) % n) + 1])),
                        vec_dot(w, w)))]

\* round t pushes |q| for q the Rayleigh quotient of its vector against
\* the working matrix, and leaves the working matrix less q * v * v^T
RoundAsStated(t) ==
    IF RoundOfNaN(t)
    THEN /\ is_nan(ret.eigenvalues[t])
         /\ \A x \in 1..(args.n * args.n) : is_nan(WorkingMatrix(t)[x])
    ELSE LET before == WorkingMatrix(t - 1)
             w == RoundVector(t)
             q == f64_div(vec_dot(w, mat_vec(before, w, args.n)), vec_dot(w, w))
         IN  /\ ret.eigenvalues[t] = FAbs(q)
             /\ \A x \in 1..(args.n * args.n) :
                   WorkingMatrix(t)[x] = Deflated(before, q, w, args.n)[x]

\* C25: for an n x n matrix calculate_eigenvalues returns exactly min(k, n)
\* eigenvalues, one per round, each >= 0: the absolute value of the
\* Rayleigh quotient q of the round's vector against the working matrix,
\* which the round leaves less q * v * v^T (the matrix passed in is never
\* written).
C25_EigenRounds ==
    (Returned("calculate_eigenvalues") /\ Len(args.matrix) = args.n * args.n) =>
        /\ ret.kind = "EigenResult"
        /\ Len(ret.eigenvalues) = (IF args.k < args.n THEN args.k ELSE args.n)
        /\ \A t \in 1..Len(ret.eigenvalues) :
              /\ ~is_nan(ret.eigenvalues[t])
              /\ ~f64_lt(ret.eigenvalues[t], AsFloat(0))
              /\ RoundAsStated(t)


\* the lengths of the output buffers the declared dimensions fix, in the
\* order the wrapper allocates them
DeclaredOut ==
    IF op = "blup" THEN <<args.p, args.q>>
    ELSE IF op = "gblup" THEN <<args.n>>
    ELSE IF op = "solve_mme_pcg" THEN <<args.rhs>>
    ELSE <<args.n * args.n>>

\* the lengths of the buffers an Ok result carries
ReturnedOut ==
    IF op = "blup" THEN <<ret.value.beta.len, ret.value.breeding_values.len>>
    ELSE IF op = "solve_mme_pcg" THEN <<ret.value[1].len>>
    ELSE <<ret.value.len>>

\* C26: every output buffer is allocated before the native call with the
\* length the declared dimensions fix (p and q, n, n * n, rhs.len()) and is
\* returned with that length when the kernel reports success; an error
\* outcome carries no output buffer.
C26_OutputLengths ==
    (pc = "done" /\ IsWrapper) =>
        /\ NativeCalled =>
              [x \in 1..Len(native[1].out) |-> native[1].out[x].len] = DeclaredOut
        /\ ret.kind = "Ok" => (NativeCalled /\ ReturnedOut = DeclaredOut)
        /\ ret.kind = "Err" => "value" \notin DOMAIN ret


\* the caller's dimensions and budget, in the order the wrapper passes them
DeclaredDims ==
    IF op = "blup" THEN <<args.n, args.p, args.q>>
    ELSE IF op = "compute_epistatic" THEN <<args.n>>
    ELSE IF op = "solve_mme_pcg" THEN <<args.rhs, args.max_iterations>>
    ELSE <<args.n, args.m>>

\* C27: the c_int dimensions and budget a wrapper hands to the kernel equal
\* the caller's usize values the buffer lengths were checked against: no
\* value is handed over truncated or sign-wrapped.
C27_DimsPassedExactly ==
    (pc = "done" /\ IsWrapper /\ NativeCalled) => native[1].dims = DeclaredDims


\* C28: for every negative value r other than -1 that solve_mme returns,
\* solve_mme_pcg reports ConvergenceFailure with iterations = |r| > 0: the
\* negation of r does not overflow, the minimum c_int included.
C28_NegationExact ==
    (Returned("solve_mme_pcg") /\ NativeCalled /\ native[1].status < -1) =>
        /\ ret = Err(ConvergenceFailure(Abs(native[1].status)))
        /\ ret.error.iterations > 0


\* the matrix a builder returned
BuiltG == IF op = "calculate_grm" THEN ret.matrix ELSE ret

\* a builder returned the matrix of a genotype matrix in which every call
\* is a dosage, and the scale it summed is not zero
CompleteGenotypes ==
    /\ Centred
    /\ op = "calculate_grm" => ret.kind = "GRMResult"
    /\ Len(CallsOf(args)) = RowsOf(args) * args.n_markers
    /\ \A x \in 1..Len(CallsOf(args)) : IsDosage(CallsOf(args)[x])
    /\ SummedScale # AsFloat(0)

\* C29: for a genotype matrix with no missing or invalid call and a
\* non-zero scale, every column of Z sums to zero over the individuals, and
\* so does every row and every column of the G returned.
C29_RowSumsZero ==
    CompleteGenotypes =>
        /\ \A j \in 0..(args.n_markers - 1) :
              FSum(Column(locals.z, RowsOf(args), args.n_markers, j)) = AsFloat(0)
        /\ \A i \in 0..(RowsOf(args) - 1) :
              /\ FSum([k \in 1..RowsOf(args) |-> Cell(BuiltG, RowsOf(args), i, k - 1)])
                     = AsFloat(0)
              /\ FSum(Column(BuiltG, RowsOf(args), RowsOf(args), i)) = AsFloat(0)

\* two individuals that differ at a marker: G is not the zero matrix
C29_Witness ==
    /\ CompleteGenotypes
    /\ op = "calculate_g_matrix"
    /\ args.n_individuals = 2
    /\ args.n_markers = 2
    /\ BuiltG[1] # AsFloat(0)
    /\ BuiltG[2] # AsFloat(0)


\* a percentage: a number (no NaN) from 0 to 100
IsPercentage(e) ==
    /\ ~is_nan(e)
    /\ ~f64_lt(e, AsFloat(0))
    /\ ~f64_lt(AsFloat(100), e)

\* the sum of the eigenvalues returned is 0
ZeroTotal == \A t \in 1..Len(ret.eigenvalues) : ret.eigenvalues[t] = AsFloat(0)

\* C30: calculate_eigenvalues never divides by a zero total: every entry
\* of explained_variance is a percentage in [0, 100], cumulative_variance
\* never decreases, and when the eigenvalues sum to 0 the percentages are
\* reported as 0.  Stated for the calls whose start vectors have no zero
\* component, where no eigenvalue is a NaN.
C30_ExplainedVariance ==
    (Returned("calculate_eigenvalues") /\ ret.kind = "EigenResult"
        /\ NoZeroDraw(locals.draws)) =>
        /\ \A t \in 1..Len(ret.explained_variance) :
              IsPercentage(ret.explained_variance[t])
        /\ \A t \in 2..Len(ret.cumulative_variance) :
              /\ ~is_nan(ret.cumulative_variance[t])
              /\ ~f64_lt(ret.cumulative_variance[t], ret.cumulative_variance[t - 1])
        /\ ZeroTotal =>
              \A t \in 1..Len(ret.explained_variance) :
                  ret.explained_variance[t] = AsFloat(0)

====
